---- MODULE Spec2Model ----
(***************************************************************************)
(* Model of handlers/handler.py: the registry purge handler `handle` and   *)
(* its two predicates is_tag_old and should_delete_tag_by_name.            *)
(*                                                                         *)
(* The registry API (RegistryV1API) is the environment: every call either *)
(* returns or throws, chosen nondeterministically.  The registry's content *)
(* (which namespace owns which image, the tags of an image) is an input.   *)
(* Time is counted in seconds.  Strings that the code inspects (tag names, *)
(* the regular expression) are sequences of characters.                   *)
(***************************************************************************)
EXTENDS Integers, Sequences, FiniteSets, TLC

VARIABLES
    \* configuration read from the environment (handler.py 47-50)
    delete_old_tags, tag_name_pattern, delete_unused_namespaces, target_namespace_id,
    \* the registry: namespace of every image, what has really been deleted
    image_namespace, registry_deleted_tags, registry_deleted_namespaces,
    \* locals of handle
    pc, images_response, image_idx, tags_to_delete, msg, deleted_count, tag_idx,
    namespaces_to_check, namespace_idx, deleted_namespaces_count, namespace_errors,
    result,
    \* history of the requests sent to the registry, in order
    calls,
    \* one evaluation of is_tag_old on its own: the tag, the clock, the answer
    probe

vars == <<delete_old_tags, tag_name_pattern, delete_unused_namespaces, target_namespace_id,
          image_namespace, registry_deleted_tags, registry_deleted_namespaces,
          pc, images_response, image_idx, tags_to_delete, msg, deleted_count, tag_idx,
          namespaces_to_check, namespace_idx, deleted_namespaces_count, namespace_errors,
          result, calls, probe>>

config_vars == <<delete_old_tags, tag_name_pattern, delete_unused_namespaces,
                 target_namespace_id, image_namespace>>

-----------------------------------------------------------------------------
(* Bounds of the model *)

\* the tags the registry returns during one run, over all images
MaxTags == 2

\* the requests that throw during one run
MaxFailures == 2

\* is_tag_old alone is tried on timestamps this many seconds around the cutoff
ProbeSpan == 1

-----------------------------------------------------------------------------
(* Python values.  Strings the code looks into are sequences; the values   *)
(* of the boolean options are TLA+ strings.                                 *)

\* None, and a value that is present
None == [set |-> FALSE, val |-> <<>>]

Some(v) == [set |-> TRUE, val |-> v]

\* truth value of an optional string: None and the empty string are falsy
Truthy(o) == o.set /\ o.val # <<>>

\* os.environ.get(name, default)
EnvGet(value, default) == IF value.set THEN value.val ELSE default

\* str.lower() on the values the boolean options are given
Lower(s) ==
    CASE s = "TRUE" -> "true"
      [] s = "True" -> "true"
      [] s = "FALSE" -> "false"
      [] OTHER -> s

\* os.environ.get(name, default).lower() == 'true'
EnvFlag(value, default) == Lower(EnvGet(value, default)) = "true"

-----------------------------------------------------------------------------
(* Timestamps: None, or a datetime that is timezone-aware or naive *)

NoDate == [kind |-> "none", t |-> 0]

Aware(t) == [kind |-> "aware", t |-> t]

Naive(t) == [kind |-> "naive", t |-> t]

IsDate(d) == d.kind \in {"aware", "naive"}

RetentionDays == 90

RetentionSeconds == RetentionDays * 24 * 60 * 60

\* the clock at the start of the run
Now0 == 100 * 24 * 60 * 60

\* max(a, b) raises TypeError on None and on an aware/naive pair
MaxRaises(a, b) == ~IsDate(a) \/ ~IsDate(b) \/ a.kind # b.kind

\* Python's max keeps the first argument unless the second is greater
PyMax(a, b) == IF b.t > a.t THEN b ELSE a

is_tag_old_lenient(tag, now) ==
    IF MaxRaises(tag.created_at, tag.updated_at)
    THEN FALSE
    ELSE PyMax(tag.created_at, tag.updated_at).t <= now - RetentionSeconds

is_tag_old(tag, now) ==
    IF MaxRaises(tag.created_at, tag.updated_at)
    THEN FALSE
    ELSE LET most_recent_date == PyMax(tag.created_at, tag.updated_at)
             cutoff_date == now - RetentionSeconds
         IN most_recent_date.t < cutoff_date

\* datetime.isoformat(); on None the attribute access raises
IsoformatRaises(d) == ~IsDate(d)

Isoformat(d) == [iso |-> d.t, offset |-> d.kind = "aware"]

-----------------------------------------------------------------------------
(* Regular expressions: an optional leading ^ followed by literal          *)
(* characters; an unterminated [ does not compile (re.error)               *)

RegexCompiles(p) == \A i \in 1..Len(p) : p[i] # "["

RegexAnchored(p) == Len(p) > 0 /\ p[1] = "^"

RegexLiteral(p) == IF RegexAnchored(p) THEN SubSeq(p, 2, Len(p)) ELSE p

MatchesAt(lit, s, off) ==
    /\ off + Len(lit) <= Len(s)
    /\ \A i \in 1..Len(lit) : s[off + i] = lit[i]

\* pattern.search(s)
RegexSearch(p, s) ==
    \E off \in 0..Len(s) :
        /\ RegexAnchored(p) => off = 0
        /\ MatchesAt(RegexLiteral(p), s, off)

should_delete_tag_by_name(tag, name_pattern) ==
    IF ~Truthy(name_pattern) THEN FALSE
    ELSE IF ~RegexCompiles(name_pattern.val) THEN FALSE
    ELSE RegexSearch(name_pattern.val, tag.name)

-----------------------------------------------------------------------------
(* The registry *)

\* the registry holds two namespaces and two images, in creation order
NamespaceNumbers == <<1, 2>>

ImageNumbers == <<1, 2>>

NamespaceId(n) == <<"n", "s", n>>

NamespaceIds == {NamespaceId(NamespaceNumbers[n]) : n \in DOMAIN NamespaceNumbers}

Namespace(n) == [id |-> NamespaceId(n), name |-> <<"n", n>>]

ImageIds == {ImageNumbers[i] : i \in DOMAIN ImageNumbers}

Image(i) == [id |-> i, namespace_id |-> image_namespace[i]]

\* list_images_all(region, order_by="created_at_asc"), with or without namespace_id
ListImagesAll(filter) ==
    LET all == [i \in DOMAIN ImageNumbers |-> Image(ImageNumbers[i])]
        Keep(image) == filter.set => image.namespace_id = filter.val
    IN SelectSeq(all, Keep)

\* list_namespaces_all(region)
ListNamespacesAll == [n \in DOMAIN NamespaceNumbers |-> Namespace(NamespaceNumbers[n])]

\* get_namespace(region, namespace_id)
GetNamespace(id) ==
    CHOOSE ns \in {ListNamespacesAll[n] : n \in DOMAIN ListNamespacesAll} : ns.id = id

OldDate == Aware(Now0 - RetentionSeconds - 24 * 60 * 60)

NewDate == Aware(Now0 - 1)

\* what a tag of the registry may look like: name, created_at, updated_at
TagProfiles ==
    { [name |-> <<"v", "1">>, created_at |-> OldDate, updated_at |-> OldDate],
      [name |-> <<"m", "v">>, created_at |-> OldDate, updated_at |-> OldDate],
      [name |-> <<"v", "1">>, created_at |-> NoDate, updated_at |-> NewDate],
      [name |-> <<"m", "v">>, created_at |-> NewDate, updated_at |-> NewDate] }

Tag(image_id, k, profile) ==
    [id |-> <<image_id, k>>, name |-> profile.name, image_id |-> image_id,
     created_at |-> profile.created_at, updated_at |-> profile.updated_at]

\* the answers list_tags_all(region, image_id) may give, at most `room` tags long
TagListings(image_id, room) ==
    UNION { { [k \in 1..n |-> Tag(image_id, k, f[k])] : f \in [1..n -> TagProfiles] }
            : n \in 0..room }

\* the readings of datetime.now() during one run
ClockReadings == {Now0, Now0 + 1}

Call(op, arg, ok, count) == [op |-> op, arg |-> arg, ok |-> ok, count |-> count]

RECURSIVE TagsListed(_)
\* the number of tags the registry has returned so far
TagsListed(log) ==
    IF log = <<>> THEN 0
    ELSE (IF Head(log).op = "list_tags_all" THEN Head(log).count ELSE 0)
         + TagsListed(Tail(log))

\* the number of requests that have thrown so far
Failures(log) == Cardinality({c \in 1..Len(log) : ~log[c].ok})

\* the outcomes the next request may have: it may throw while failures remain
Outcomes == IF Failures(calls) < MaxFailures THEN BOOLEAN ELSE {TRUE}

-----------------------------------------------------------------------------
(* handle: classification (handler.py 87-105) *)

deletion_reason(tag, now) ==
    (IF delete_old_tags /\ is_tag_old(tag, now) THEN <<"old">> ELSE <<>>)
    \o (IF Truthy(tag_name_pattern) /\ should_delete_tag_by_name(tag, tag_name_pattern)
        THEN <<"name_match">> ELSE <<>>)

should_delete_unguarded(tag, now) ==
    \/ is_tag_old(tag, now)
    \/ should_delete_tag_by_name(tag, tag_name_pattern)

should_delete(tag, now) ==
    \/ delete_old_tags /\ is_tag_old(tag, now)
    \/ Truthy(tag_name_pattern) /\ should_delete_tag_by_name(tag, tag_name_pattern)

\* one record per reason instead of one record per tag
CandidatePerReason(tag, now) ==
    [r \in 1..Len(deletion_reason(tag, now)) |->
        [tag |-> tag, reason |-> <<deletion_reason(tag, now)[r]>>]]

\* what one tag adds to tags_to_delete
Candidate(tag, now) ==
    IF should_delete(tag, now)
    THEN <<[tag |-> tag, reason |-> deletion_reason(tag, now)]>>
    ELSE <<>>

RECURSIVE ClassifyTags(_, _)
ClassifyTags(tags_response, now) ==
    IF tags_response = <<>> THEN <<>>
    ELSE Candidate(Head(tags_response), now) \o ClassifyTags(Tail(tags_response), now)

-----------------------------------------------------------------------------
(* handle: the results (handler.py 237-276) *)

criteria_used ==
    [delete_old_tags |-> delete_old_tags,
     tag_name_pattern |-> tag_name_pattern,
     delete_unused_namespaces |-> delete_unused_namespaces,
     target_namespace_id |-> target_namespace_id]

SuccessResult ==
    [statusCode |-> 200,
     body |-> [message |-> msg,
               summary |-> [total_images_analyzed |-> Len(images_response),
                            total_tags_found |-> Len(tags_to_delete),
                            successfully_deleted |-> deleted_count,
                            errors |-> Len(tags_to_delete) - deleted_count,
                            namespaces_deleted |->
                                IF delete_unused_namespaces
                                THEN deleted_namespaces_count ELSE 0,
                            namespace_errors |->
                                IF delete_unused_namespaces THEN namespace_errors ELSE 0,
                            criteria_used |-> criteria_used]]]

\* a handler that swallowed the exception would answer as after a normal run
ErrorResultSwallowed == SuccessResult

ErrorResult ==
    [statusCode |-> 500,
     body |-> [error |-> "Erreur generale du script",
               summary |-> [total_images_analyzed |-> 0,
                            total_tags_found |-> 0,
                            successfully_deleted |-> 0,
                            errors |-> 1,
                            criteria_used |-> criteria_used]]]

NoResult == [statusCode |-> 0]

-----------------------------------------------------------------------------
(* handle: the steps *)

handler_locals == <<images_response, image_idx, tags_to_delete, msg, deleted_count,
                    tag_idx, namespaces_to_check, namespace_idx,
                    deleted_namespaces_count, namespace_errors>>

\* the namespace_id handed to the first list_images_all (handler.py 62-73)
ImagesFilterIgnored == None


ImagesFilter == IF Truthy(target_namespace_id) THEN Some(target_namespace_id.val) ELSE None

\* handler.py 59-74 and, when the call throws, 258-276
ListImages ==
    /\ pc = "fetch"
    /\ \E ok \in Outcomes :
        IF ok
        THEN /\ images_response' = ListImagesAll(ImagesFilter)
             /\ calls' = Append(calls, Call("list_images_all", ImagesFilter, TRUE,
                                            Len(ListImagesAll(ImagesFilter))))
             /\ image_idx' = 1
             /\ pc' = "classify"
             /\ UNCHANGED result
        ELSE /\ calls' = Append(calls, Call("list_images_all", ImagesFilter, FALSE, 0))
             /\ result' = ErrorResult
             /\ pc' = "done"
             /\ UNCHANGED <<images_response, image_idx>>
    /\ UNCHANGED <<config_vars, registry_deleted_tags, registry_deleted_namespaces,
                   tags_to_delete, msg, deleted_count, tag_idx, namespaces_to_check,
                   namespace_idx, deleted_namespaces_count, namespace_errors, probe>>

\* whether the except of the per-image try leaves the loop (handler.py 107-109)
TagListingFailureAbortsRun == TRUE

TagListingFailureAborts == FALSE

\* one iteration of the loop over images_response (handler.py 77-109)
ListTags ==
    /\ pc = "classify"
    /\ image_idx <= Len(images_response)
    /\ LET image == images_response[image_idx] IN
       \E ok \in Outcomes :
        IF ok
        THEN \E tags_response \in TagListings(image.id, MaxTags - TagsListed(calls)),
                now \in ClockReadings :
             /\ tags_to_delete' = tags_to_delete \o ClassifyTags(tags_response, now)
             /\ calls' = Append(calls, Call("list_tags_all", image.id, TRUE,
                                            Len(tags_response)))
             /\ image_idx' = image_idx + 1
             /\ UNCHANGED <<pc, result>>
        ELSE /\ calls' = Append(calls, Call("list_tags_all", image.id, FALSE, 0))
             /\ IF TagListingFailureAborts
                THEN /\ pc' = "done"
                     /\ result' = ErrorResult
                     /\ UNCHANGED image_idx
                ELSE /\ image_idx' = image_idx + 1
                     /\ UNCHANGED <<pc, result>>
             /\ UNCHANGED tags_to_delete
    /\ UNCHANGED <<config_vars, registry_deleted_tags, registry_deleted_namespaces,
                   images_response, msg, deleted_count, tag_idx, namespaces_to_check,
                   namespace_idx, deleted_namespaces_count, namespace_errors, probe>>

\* when the loop over images_response is over (handler.py 77)
ClassifyOverEarly(i) == i > 1

ClassifyOver(i) == i > Len(images_response)

\* handler.py 111-131
EndClassify ==
    /\ pc = "classify"
    /\ ClassifyOver(image_idx)
    /\ msg' = <<>>
    /\ deleted_count' = 0
    /\ tag_idx' = 1
    /\ pc' = "delete"
    /\ UNCHANGED <<config_vars, registry_deleted_tags, registry_deleted_namespaces,
                   images_response, image_idx, tags_to_delete, namespaces_to_check,
                   namespace_idx, deleted_namespaces_count, namespace_errors, result,
                   calls, probe>>

\* the record appended after delete_tag returned (handler.py 144-152)
DeletedRecord(tag, reasons) ==
    [tag_id |-> tag.id, tag_name |-> tag.name, image_name |-> "unknown",
     status |-> "deleted", deletion_reasons |-> reasons,
     created_at |-> Isoformat(tag.created_at),
     updated_at |-> Isoformat(tag.updated_at)]

\* building that record raises when a timestamp has no isoformat
DeletedRecordRaises(tag) ==
    IsoformatRaises(tag.created_at) \/ IsoformatRaises(tag.updated_at)

\* the record appended by the except (handler.py 157-163)
ErrorRecord(tag, reasons) ==
    [tag_id |-> tag.id, tag_name |-> tag.name, status |-> "error",
     deletion_reasons |-> reasons, error |-> "exception"]

\* where the loop over tags_to_delete goes after a candidate (handler.py 133, 156)
NextCandidateStopOnError(i, failed) ==
    IF failed THEN Len(tags_to_delete) + 1 ELSE i + 1

NextCandidate(i, failed) == i + 1

\* one iteration of the loop over tags_to_delete (handler.py 133-164)
DeleteTag ==
    /\ pc = "delete"
    /\ tag_idx <= Len(tags_to_delete)
    /\ LET tag == tags_to_delete[tag_idx].tag
           reasons == tags_to_delete[tag_idx].reason
       IN \E ok \in Outcomes :
           /\ calls' = Append(calls, Call("delete_tag", tag.id, ok, 0))
           /\ registry_deleted_tags' =
                IF ok THEN registry_deleted_tags \cup {tag.id} ELSE registry_deleted_tags
           /\ IF ok /\ ~DeletedRecordRaises(tag)
              THEN /\ msg' = Append(msg, DeletedRecord(tag, reasons))
                   /\ deleted_count' = deleted_count + 1
                   /\ tag_idx' = NextCandidate(tag_idx, FALSE)
              ELSE /\ msg' = Append(msg, ErrorRecord(tag, reasons))
                   /\ tag_idx' = NextCandidate(tag_idx, TRUE)
                   /\ UNCHANGED deleted_count
    /\ UNCHANGED <<config_vars, registry_deleted_namespaces, pc, images_response,
                   image_idx, tags_to_delete, namespaces_to_check, namespace_idx,
                   deleted_namespaces_count, namespace_errors, result, probe>>

\* handler.py 170
SweepEnabled == delete_unused_namespaces

\* handler.py 166-170
EndDelete ==
    /\ pc = "delete"
    /\ tag_idx > Len(tags_to_delete)
    /\ deleted_namespaces_count' = 0
    /\ namespace_errors' = 0
    /\ pc' = IF SweepEnabled THEN "namespaces" ELSE "summarize"
    /\ UNCHANGED <<config_vars, registry_deleted_tags, registry_deleted_namespaces,
                   images_response, image_idx, tags_to_delete, msg, deleted_count,
                   tag_idx, namespaces_to_check, namespace_idx, result, calls, probe>>

\* the namespaces the sweep looks at (handler.py 173-188)
FetchNamespaces ==
    /\ pc = "namespaces"
    /\ \E ok \in Outcomes :
        IF Truthy(target_namespace_id)
        THEN /\ calls' = Append(calls, Call("get_namespace", target_namespace_id.val,
                                            ok, 0))
             /\ namespaces_to_check' =
                  IF ok THEN <<GetNamespace(target_namespace_id.val)>> ELSE <<>>
             /\ namespace_idx' = 1
             /\ pc' = "sweep"
             /\ UNCHANGED namespace_errors
        ELSE /\ calls' = Append(calls, Call("list_namespaces_all", None, ok,
                                            IF ok THEN Len(ListNamespacesAll) ELSE 0))
             /\ IF ok
                THEN /\ namespaces_to_check' = ListNamespacesAll
                     /\ namespace_idx' = 1
                     /\ pc' = "sweep"
                     /\ UNCHANGED namespace_errors
                ELSE /\ namespace_errors' = namespace_errors + 1
                     /\ pc' = "summarize"
                     /\ UNCHANGED <<namespaces_to_check, namespace_idx>>
    /\ UNCHANGED <<config_vars, registry_deleted_tags, registry_deleted_namespaces,
                   images_response, image_idx, tags_to_delete, msg, deleted_count,
                   tag_idx, deleted_namespaces_count, result, probe>>

NamespaceRecord(namespace, status) ==
    [namespace_id |-> namespace.id, namespace_name |-> namespace.name,
     status |-> status, type |-> "namespace", reason |-> "empty_namespace"]

\* handler.py 199
NamespaceAlmostEmpty(images_in_namespace) == Len(images_in_namespace) <= 1

NamespaceEmpty(images_in_namespace) == Len(images_in_namespace) = 0

\* one iteration of the loop over namespaces_to_check (handler.py 190-231)
CheckNamespace ==
    /\ pc = "sweep"
    /\ namespace_idx <= Len(namespaces_to_check)
    /\ LET namespace == namespaces_to_check[namespace_idx]
           images_in_namespace == ListImagesAll(Some(namespace.id))
           listing(ok) == Call("list_images_all", Some(namespace.id), ok,
                               IF ok THEN Len(images_in_namespace) ELSE 0)
       IN \E listed \in Outcomes, deleted \in BOOLEAN :
           /\ namespace_idx' = namespace_idx + 1
           /\ IF ~listed
              THEN /\ ~deleted
                   /\ calls' = Append(calls, listing(FALSE))
                   /\ namespace_errors' = namespace_errors + 1
                   /\ UNCHANGED <<msg, deleted_namespaces_count,
                                  registry_deleted_namespaces>>
              ELSE IF ~NamespaceEmpty(images_in_namespace)
              THEN /\ ~deleted
                   /\ calls' = Append(calls, listing(TRUE))
                   /\ UNCHANGED <<msg, deleted_namespaces_count, namespace_errors,
                                  registry_deleted_namespaces>>
              ELSE /\ deleted \/ Failures(calls) < MaxFailures
                   /\ calls' = calls \o <<listing(TRUE),
                                          Call("delete_namespace", namespace.id,
                                               deleted, 0)>>
                   /\ IF deleted
                      THEN /\ msg' = Append(msg, NamespaceRecord(namespace, "deleted"))
                           /\ deleted_namespaces_count' = deleted_namespaces_count + 1
                           /\ registry_deleted_namespaces' =
                                registry_deleted_namespaces \cup {namespace.id}
                           /\ UNCHANGED namespace_errors
                      ELSE /\ msg' = Append(msg, NamespaceRecord(namespace, "error"))
                           /\ namespace_errors' = namespace_errors + 1
                           /\ UNCHANGED <<deleted_namespaces_count,
                                          registry_deleted_namespaces>>
    /\ UNCHANGED <<config_vars, registry_deleted_tags, pc, images_response, image_idx,
                   tags_to_delete, deleted_count, tag_idx, namespaces_to_check, result,
                   probe>>

\* the loop over namespaces_to_check is over (handler.py 190)
EndSweep ==
    /\ pc = "sweep"
    /\ namespace_idx > Len(namespaces_to_check)
    /\ pc' = "summarize"
    /\ UNCHANGED <<config_vars, registry_deleted_tags, registry_deleted_namespaces,
                   handler_locals, result, calls, probe>>

\* handler.py 237-256
Summarize ==
    /\ pc = "summarize"
    /\ result' = SuccessResult
    /\ pc' = "done"
    /\ UNCHANGED <<config_vars, registry_deleted_tags, registry_deleted_namespaces,
                   handler_locals, calls, probe>>

-----------------------------------------------------------------------------
(* The runs of handle *)

\* the values the boolean options are given; None is an unset variable
FlagValues == {None, Some("true"), Some("True"), Some("false"), Some("1")}

PatternValues == {None, Some(<<>>), Some(<<"^", "v">>), Some(<<"[">>)}

TargetValues == {None, Some(<<>>)} \cup {Some(id) : id \in NamespaceIds}

NoProbe == [called |-> FALSE]

Init ==
    /\ \E v \in FlagValues : delete_old_tags = EnvFlag(v, "true")
    /\ tag_name_pattern \in PatternValues
    /\ \E v \in FlagValues : delete_unused_namespaces = EnvFlag(v, "false")
    /\ target_namespace_id \in TargetValues
    /\ image_namespace \in [ImageIds -> NamespaceIds]
    /\ registry_deleted_tags = {}
    /\ registry_deleted_namespaces = {}
    /\ pc = "fetch"
    /\ images_response = <<>>
    /\ image_idx = 0
    /\ tags_to_delete = <<>>
    /\ msg = <<>>
    /\ deleted_count = 0
    /\ tag_idx = 0
    /\ namespaces_to_check = <<>>
    /\ namespace_idx = 0
    /\ deleted_namespaces_count = 0
    /\ namespace_errors = 0
    /\ result = NoResult
    /\ calls = <<>>
    /\ probe = NoProbe

\* is_tag_old on its own: the timestamps and clocks it is tried on
ProbeTimes ==
    {Now0 - RetentionSeconds + d : d \in (0 - ProbeSpan)..ProbeSpan} \cup {Now0 - 1}

ProbeDates == {NoDate} \cup {Aware(t) : t \in ProbeTimes} \cup {Naive(t) : t \in ProbeTimes}

ProbeTags ==
    {Tag(1, 1, [name |-> <<"v", "1">>, created_at |-> c, updated_at |-> u]) :
        c \in ProbeDates, u \in ProbeDates}

InitAge ==
    /\ delete_old_tags = EnvFlag(None, "true")
    /\ tag_name_pattern = None
    /\ delete_unused_namespaces = EnvFlag(None, "false")
    /\ target_namespace_id = None
    /\ image_namespace = [i \in ImageIds |-> NamespaceId(1)]
    /\ registry_deleted_tags = {}
    /\ registry_deleted_namespaces = {}
    /\ pc = "is_tag_old"
    /\ images_response = <<>>
    /\ image_idx = 0
    /\ tags_to_delete = <<>>
    /\ msg = <<>>
    /\ deleted_count = 0
    /\ tag_idx = 0
    /\ namespaces_to_check = <<>>
    /\ namespace_idx = 0
    /\ deleted_namespaces_count = 0
    /\ namespace_errors = 0
    /\ result = NoResult
    /\ calls = <<>>
    /\ probe = NoProbe

\* one call of is_tag_old (handler.py 7-24)
IsTagOldCall ==
    /\ pc = "is_tag_old"
    /\ \E tag \in ProbeTags, now \in ClockReadings :
         probe' = [called |-> TRUE, tag |-> tag, now |-> now,
                   old |-> is_tag_old(tag, now)]
    /\ UNCHANGED <<config_vars, registry_deleted_tags, registry_deleted_namespaces,
                   pc, handler_locals, result, calls>>

NextAge == IsTagOldCall

SpecAge == InitAge /\ [][NextAge]_vars

Next ==
    \/ ListImages
    \/ ListTags
    \/ EndClassify
    \/ DeleteTag
    \/ EndDelete
    \/ FetchNamespaces
    \/ CheckNamespace
    \/ EndSweep
    \/ Summarize

Spec == Init /\ [][Next]_vars

-----------------------------------------------------------------------------
(* Properties *)

CallIndexes(op) == {c \in DOMAIN calls : calls[c].op = op}

\* the records of msg that are about a tag
TagRecordIndexes == {m \in DOMAIN msg : "tag_id" \in DOMAIN msg[m]}

CandidateIds == {tags_to_delete[k].tag.id : k \in DOMAIN tags_to_delete}

\* the tag deletion loop is over and handle did not return the error result
DeletionOver ==
    \/ pc \in {"namespaces", "sweep", "summarize"}
    \/ pc = "done" /\ result.statusCode = 200

\* the phase a request belongs to: the first request is the image listing of
\* the fetch, a later image listing is the sweep's
PhaseOfCall(c) ==
    CASE c = 1 /\ calls[c].op = "list_images_all" -> 1
      [] calls[c].op = "list_tags_all" -> 2
      [] calls[c].op = "delete_tag" -> 3
      [] OTHER -> 4

\* C1: a tag is a candidate, and a delete_tag request is sent for it, only if
\* (DELETE_OLD_TAGS is enabled and is_tag_old holds of it) or (TAG_NAME_PATTERN
\* is configured and should_delete_tag_by_name holds of it); with neither option
\* active there is no candidate and no delete_tag request.
C1_OnlyMatchingTagsDeleted ==
    /\ \A k \in DOMAIN tags_to_delete :
         LET tag == tags_to_delete[k].tag IN
           \/ delete_old_tags /\ \E now \in ClockReadings : is_tag_old(tag, now)
           \/ /\ tag_name_pattern.set
              /\ should_delete_tag_by_name(tag, tag_name_pattern)
    /\ \A c \in CallIndexes("delete_tag") : calls[c].arg \in CandidateIds
    /\ registry_deleted_tags \subseteq CandidateIds
    /\ (~delete_old_tags /\ ~tag_name_pattern.set) =>
         /\ tags_to_delete = <<>>
         /\ CallIndexes("delete_tag") = {}

\* C1 witness: a finished run in which one image's tags were listed and none
\* of them became a candidate, while a tag of another image was deleted.
C1_Witness ==
    /\ pc = "done"
    /\ \E c \in CallIndexes("list_tags_all") :
         /\ calls[c].ok /\ calls[c].count >= 1
         /\ \A k \in DOMAIN tags_to_delete :
              tags_to_delete[k].tag.image_id # calls[c].arg
    /\ \E c \in CallIndexes("delete_tag") : calls[c].ok

\* C2 (as stated): when the first image listing throws, handle returns 500 and
\* the counters of the summary, errors included, are all zero.
C2_AllCountersZero ==
    (calls # <<>> /\ ~calls[1].ok) =>
        /\ pc = "done"
        /\ result.statusCode = 500
        /\ result.body.summary.total_images_analyzed = 0
        /\ result.body.summary.total_tags_found = 0
        /\ result.body.summary.successfully_deleted = 0
        /\ result.body.summary.errors = 0

\* C2 (amended): when the first image listing throws, handle returns 500 with
\* an error string, total_images_analyzed, total_tags_found and
\* successfully_deleted are zero, errors is 1, and nothing else was requested.
C2_ListingFailureResult ==
    (calls # <<>> /\ ~calls[1].ok) =>
        /\ pc = "done"
        /\ result.statusCode = 500
        /\ "error" \in DOMAIN result.body
        /\ result.body.summary.total_images_analyzed = 0
        /\ result.body.summary.total_tags_found = 0
        /\ result.body.summary.successfully_deleted = 0
        /\ result.body.summary.errors = 1
        /\ Len(calls) = 1

\* C2 witness: the image listing has thrown and handle has returned.
C2_Witness ==
    /\ pc = "done"
    /\ Len(calls) = 1
    /\ calls[1].op = "list_images_all"
    /\ ~calls[1].ok

\* C3: while the deletion loop runs, the candidates before tag_idx have each
\* had one delete_tag request and one record; once it is over every candidate
\* has exactly one request and one record, whatever failed before; and the
\* summary has errors = total_tags_found - successfully_deleted = the number of
\* error records.
C3_EveryCandidateAttempted ==
    /\ pc = "delete" =>
         /\ Cardinality(CallIndexes("delete_tag")) = tag_idx - 1
         /\ Cardinality(TagRecordIndexes) = tag_idx - 1
    /\ DeletionOver =>
         \A k \in DOMAIN tags_to_delete :
            LET id == tags_to_delete[k].tag.id IN
              /\ Cardinality({c \in CallIndexes("delete_tag") : calls[c].arg = id}) = 1
              /\ Cardinality({m \in TagRecordIndexes : msg[m].tag_id = id}) = 1
    /\ (pc = "done" /\ result.statusCode = 200) =>
         LET summary == result.body.summary IN
           /\ summary.total_tags_found = Len(tags_to_delete)
           /\ summary.errors = summary.total_tags_found - summary.successfully_deleted
           /\ summary.errors =
                Cardinality({m \in TagRecordIndexes : msg[m].status = "error"})

\* C3 witness: a delete_tag request has thrown, a later candidate was deleted,
\* and handle has returned.
C3_Witness ==
    /\ pc = "done"
    /\ \E c, d \in CallIndexes("delete_tag") :
         c < d /\ ~calls[c].ok /\ calls[d].ok

\* C4: a delete_namespace request is sent only with DELETE_UNUSED_NAMESPACE
\* enabled and right after that namespace's image listing returned no image;
\* a namespace whose listing returned an image gets no delete_namespace.
C4_OnlyEmptyNamespacesDeleted ==
    /\ \A c \in CallIndexes("delete_namespace") :
         /\ delete_unused_namespaces
         /\ c > 1
         /\ calls[c - 1].op = "list_images_all"
         /\ calls[c - 1].arg = Some(calls[c].arg)
         /\ calls[c - 1].ok
         /\ calls[c - 1].count = 0
    /\ \A c \in CallIndexes("list_images_all") :
         (calls[c].ok /\ calls[c].count >= 1 /\ calls[c].arg.set) =>
            \A d \in CallIndexes("delete_namespace") : calls[d].arg # calls[c].arg.val
    /\ \A id \in registry_deleted_namespaces :
         /\ delete_unused_namespaces
         /\ \A i \in ImageIds : image_namespace[i] # id

\* C4 witness: in one sweep a namespace with images was listed and kept, and
\* an empty one was deleted.
C4_Witness ==
    /\ pc = "done"
    /\ \E c \in CallIndexes("list_images_all") :
         c > 1 /\ calls[c].ok /\ calls[c].count >= 1
    /\ \E d \in CallIndexes("delete_namespace") : calls[d].ok

C6_AgePredicate ==
    probe.called =>
        LET created_at == probe.tag.created_at
            updated_at == probe.tag.updated_at
            usable == /\ created_at.kind \in {"aware", "naive"}
                      /\ updated_at.kind = created_at.kind
        IN /\ probe.old <=>
                /\ usable
                /\ probe.now - created_at.t > RetentionSeconds
                /\ probe.now - updated_at.t > RetentionSeconds
           /\ (usable /\ updated_at.t = probe.now - 1) => ~probe.old
           /\ ~usable => ~probe.old

\* C6 witness: is_tag_old has answered true for a tag whose later timestamp is
\* one second past the retention window.
C6_Witness ==
    /\ probe.called
    /\ probe.old
    /\ probe.tag.updated_at.t = probe.now - RetentionSeconds - 1
    /\ probe.tag.created_at.t < probe.tag.updated_at.t

\* C7: no tag is twice in tags_to_delete; a candidate's reasons are the
\* predicates that hold of it, "old" before "name_match", and never empty; a
\* tag matching both has exactly ["old", "name_match"].
C7_OneCandidatePerTag ==
    /\ \A j, k \in DOMAIN tags_to_delete :
         tags_to_delete[j].tag.id = tags_to_delete[k].tag.id => j = k
    /\ \A k \in DOMAIN tags_to_delete :
         LET tag == tags_to_delete[k].tag
             reason == tags_to_delete[k].reason
             old == delete_old_tags /\ \A now \in ClockReadings : is_tag_old(tag, now)
             name_match == should_delete_tag_by_name(tag, tag_name_pattern)
         IN /\ reason # <<>>
            /\ (old /\ name_match) => reason = <<"old", "name_match">>
            /\ (old /\ ~name_match) => reason = <<"old">>
            /\ (~old /\ name_match) => reason = <<"name_match">>

\* C7 witness: a candidate that matched both predicates.
C7_Witness ==
    \E k \in DOMAIN tags_to_delete :
        /\ tags_to_delete[k].reason = <<"old", "name_match">>
        /\ Len(tags_to_delete) = MaxTags

\* C8: once the first image listing has returned, handle never returns the
\* error result: it ends with statusCode 200, the tags of every image of the
\* listing were asked for, and every candidate had its delete_tag request,
\* whatever threw on the way.
C8_PartialFailuresStaySuccess ==
    (calls # <<>> /\ calls[1].ok) =>
        /\ result.statusCode # 500
        /\ pc = "done" =>
             /\ result.statusCode = 200
             /\ "message" \in DOMAIN result.body
             /\ \A i \in DOMAIN images_response :
                  \E c \in CallIndexes("list_tags_all") :
                      calls[c].arg = images_response[i].id
             /\ \A k \in DOMAIN tags_to_delete :
                  \E c \in CallIndexes("delete_tag") :
                      calls[c].arg = tags_to_delete[k].tag.id

\* C8 witness: a run that returned 200 although the tag listing of its first
\* image threw; a tag of the second image was still deleted.
C8_Witness ==
    /\ pc = "done"
    /\ result.statusCode = 200
    /\ \E c \in CallIndexes("list_tags_all"), d \in CallIndexes("delete_tag") :
         c < d /\ ~calls[c].ok /\ calls[d].ok

\* C9: the requests of one run come in the order fetch, classify, delete,
\* sweep: one image listing first, then the tag listings, then the delete_tag
\* requests, then the namespace requests; by the first delete_tag the tags of
\* every image of the listing were asked for, once each and in order; by the
\* first namespace request every candidate had its delete_tag, once each and
\* in order; and the result is set only at the end.
C9_PhaseOrder ==
    /\ calls # <<>> => PhaseOfCall(1) = 1
    /\ \A c \in 1..(Len(calls) - 1) : PhaseOfCall(c) <= PhaseOfCall(c + 1)
    /\ (calls # <<>> /\ PhaseOfCall(Len(calls)) >= 3) =>
         \A i \in DOMAIN images_response :
            /\ i + 1 <= Len(calls)
            /\ calls[i + 1].op = "list_tags_all"
            /\ calls[i + 1].arg = images_response[i].id
    /\ (calls # <<>> /\ PhaseOfCall(Len(calls)) = 4) =>
         \A k \in DOMAIN tags_to_delete :
            LET c == 1 + Len(images_response) + k IN
              /\ c <= Len(calls)
              /\ calls[c].op = "delete_tag"
              /\ calls[c].arg = tags_to_delete[k].tag.id
    /\ result # NoResult <=> pc = "done"

\* C9 witness: a run that went through every phase: two tag listings, a
\* deletion, a sweep that deleted a namespace, and the summary.
C9_Witness ==
    /\ pc = "done"
    /\ result.statusCode = 200
    /\ Cardinality(CallIndexes("list_tags_all")) = 2
    /\ CallIndexes("delete_tag") # {}
    /\ CallIndexes("get_namespace") # {}

\* C10: a candidate is recorded "deleted", and counted in successfully_deleted,
\* exactly when its delete_tag request succeeded, and recorded "error" only
\* when the request failed.
C10_LogAgreesWithRegistry ==
    /\ \A m \in TagRecordIndexes :
         msg[m].status = "deleted" <=> msg[m].tag_id \in registry_deleted_tags
    /\ pc # "delete" => deleted_count = Cardinality(registry_deleted_tags)

====
